---- MODULE Spec2Model ----
(***************************************************************************)
(* A model of routine_processor.py, the guitar practice routine processor: *)
(* the JSON record store (load_routines, save_routines, add_routine), the  *)
(* keyword classifier (categorize_text, extract_tags), the interactive     *)
(* driver (manual_entry) and the image driver (process_image).             *)
(*                                                                         *)
(* A Python str is modelled as the sequence of its characters, so that     *)
(* strip, lower, split and the substring test `in` are computed and not    *)
(* assumed.                                                                *)
(***************************************************************************)
EXTENDS Integers, Sequences, FiniteSets

VARIABLES
  file,      \* the JSON store on disk: [kind, data]
  pc,        \* where the process is: "idle" (the shell) or the prompt manual_entry blocks on
  cmd,       \* the subcommand main last dispatched
  exit,      \* how that command ended: "running", "normal", "uncaught"
  text,      \* manual_entry's local text
  category,  \* manual_entry's local category
  tags,      \* manual_entry's local tags
  out,       \* the messages printed by the last step
  temp,      \* process_image's temporary PNG: "none", "exists", "deleted"
  answered,  \* the last line read from standard input and the prompt it answered
  io,        \* the store calls of the last step: loads, saves and their arguments
  ocr,       \* process_image's inputs of the last run and the text extracted
  ctext,     \* the classifier's input
  ccategory, \* categorize_text(ctext), once computed
  ctags      \* extract_tags(ctext), once computed

vars == <<file, pc, cmd, exit, text, category, tags, out, temp, answered, io, ocr,
          ctext, ccategory, ctags>>

(***************************************************************************)
(* Bounds of the model.                                                    *)
(***************************************************************************)
\* the store holds at most MaxStore routines
MaxStore == 2
\* a classifier input is built of at most MaxFrags fragments
MaxFrags == 2

(***************************************************************************)
(* String literals of the program.                                         *)
(***************************************************************************)
\* the category names, valid_categories (line 18) and the returns of categorize_text
s_daily == <<"d","a","i","l","y">>
s_one_day == <<"o","n","e","_","d","a","y">>
s_two_three_days == <<"t","w","o","_","t","h","r","e","e","_","d","a","y","s">>
s_one_week == <<"o","n","e","_","w","e","e","k">>

\* the state names, valid_states (line 19)
s_not_completed == <<"n","o","t","_","c","o","m","p","l","e","t","e","d">>
s_completed == <<"c","o","m","p","l","e","t","e","d">>
s_in_progress == <<"i","n","_","p","r","o","g","r","e","s","s">>

\* the quit sentinels of manual_entry
s_q == <<"q">>
s_quit == <<"q","u","i","t">>

\* the keywords of categorize_text
s_everyday == <<"e","v","e","r","y","d","a","y">>
s_routine == <<"r","o","u","t","i","n","e">>
s_week == <<"w","e","e","k">>
s_weekly == <<"w","e","e","k","l","y">>
s_couple == <<"c","o","u","p","l","e">>
s_few == <<"f","e","w">>
s_two == <<"t","w","o">>
s_three == <<"t","h","r","e","e">>

\* the tag labels of extract_tags, and its fallback
s_scales == <<"s","c","a","l","e","s">>
s_chords == <<"c","h","o","r","d","s">>
s_technique == <<"t","e","c","h","n","i","q","u","e">>
s_ear_training == <<"e","a","r"," ","t","r","a","i","n","i","n","g">>
s_theory == <<"t","h","e","o","r","y">>
s_improv == <<"i","m","p","r","o","v">>
s_rhythm == <<"r","h","y","t","h","m">>
s_practice == <<"p","r","a","c","t","i","c","e">>
s_general == <<"g","e","n","e","r","a","l">>

\* the keywords of extract_tags that are not labels too
s_scale == <<"s","c","a","l","e">>
s_major == <<"m","a","j","o","r">>
s_minor == <<"m","i","n","o","r">>
s_pentatonic == <<"p","e","n","t","a","t","o","n","i","c">>
s_chord == <<"c","h","o","r","d">>
s_progression == <<"p","r","o","g","r","e","s","s","i","o","n">>
s_picking == <<"p","i","c","k","i","n","g">>
s_fingering == <<"f","i","n","g","e","r","i","n","g">>
s_fretting == <<"f","r","e","t","t","i","n","g">>
s_ear == <<"e","a","r">>
s_listening == <<"l","i","s","t","e","n","i","n","g">>
s_hearing == <<"h","e","a","r","i","n","g">>
s_harmony == <<"h","a","r","m","o","n","y">>
s_interval == <<"i","n","t","e","r","v","a","l">>
s_improvise == <<"i","m","p","r","o","v","i","s","e">>
s_improvisation == <<"i","m","p","r","o","v","i","s","a","t","i","o","n">>
s_jam == <<"j","a","m">>
s_timing == <<"t","i","m","i","n","g">>
s_metronome == <<"m","e","t","r","o","n","o","m","e">>
s_exercise == <<"e","x","e","r","c","i","s","e">>
s_drill == <<"d","r","i","l","l">>

(***************************************************************************)
(* str methods.                                                            *)
(***************************************************************************)
\* the characters str.strip() removes
Whitespace == {" ", "\t", "\r", "\n"}

UpperCase == <<"A","B","C","D","E","F","G","H","I","J","K","L","M",
               "N","O","P","Q","R","S","T","U","V","W","X","Y","Z">>
LowerCase == <<"a","b","c","d","e","f","g","h","i","j","k","l","m",
               "n","o","p","q","r","s","t","u","v","w","x","y","z">>

lower_char(c) ==
  IF \E i \in DOMAIN UpperCase : UpperCase[i] = c
  THEN LowerCase[CHOOSE i \in DOMAIN UpperCase : UpperCase[i] = c]
  ELSE c

\* str.lower()
RECURSIVE lower(_)
lower(s) == IF s = << >> THEN << >> ELSE <<lower_char(Head(s))>> \o lower(Tail(s))

\* str.strip()
strip(s) ==
  LET keep == {i \in 1..Len(s) : s[i] \notin Whitespace}
  IN IF keep = {} THEN << >>
     ELSE SubSeq(s, CHOOSE i \in keep : \A j \in keep : i <= j,
                    CHOOSE i \in keep : \A j \in keep : j <= i)

\* str.split(sep) for a one-character sep: always at least one piece
RECURSIVE split(_, _)
split(s, sep) ==
  IF \A i \in 1..Len(s) : s[i] # sep THEN <<s>>
  ELSE LET k == CHOOSE i \in 1..Len(s) : s[i] = sep /\ \A j \in 1..(i-1) : s[j] # sep
       IN <<SubSeq(s, 1, k-1)>> \o split(SubSeq(s, k+1, Len(s)), sep)

\* word in s
is_in(word, s) ==
  \E i \in 1..(Len(s) - Len(word) + 1) : \A j \in 1..Len(word) : s[i + j - 1] = word[j]

\* any(word in s for word in words)
any_in(words, s) == \E k \in 1..Len(words) : is_in(words[k], s)

(***************************************************************************)
(* The classifier.                                                         *)
(***************************************************************************)
\* categorize_text with the week group tested before the daily group
categorize_text_week_first(t) ==
  LET text_lower == lower(t)
  IN IF any_in(<<s_week, s_weekly>>, text_lower) THEN s_one_week
     ELSE IF any_in(<<s_daily, s_everyday, s_routine>>, text_lower) THEN s_daily
     ELSE IF any_in(<<s_couple, s_few, s_two, s_three>>, text_lower) THEN s_two_three_days
     ELSE s_one_day

categorize_text(t) ==
  LET text_lower == lower(t)
  IN IF any_in(<<s_daily, s_everyday, s_routine>>, text_lower) THEN s_daily
     ELSE IF any_in(<<s_week, s_weekly>>, text_lower) THEN s_one_week
     ELSE IF any_in(<<s_couple, s_few, s_two, s_three>>, text_lower) THEN s_two_three_days
     ELSE s_one_day

\* the dict tag_keywords, in insertion order
tag_keywords == <<
  [tag |-> s_scales,       keywords |-> <<s_scale, s_scales, s_major, s_minor, s_pentatonic>>],
  [tag |-> s_chords,       keywords |-> <<s_chord, s_chords, s_progression>>],
  [tag |-> s_technique,    keywords |-> <<s_technique, s_picking, s_fingering, s_fretting>>],
  [tag |-> s_ear_training, keywords |-> <<s_ear, s_listening, s_hearing>>],
  [tag |-> s_theory,       keywords |-> <<s_theory, s_harmony, s_interval>>],
  [tag |-> s_improv,       keywords |-> <<s_improv, s_improvise, s_improvisation, s_jam>>],
  [tag |-> s_rhythm,       keywords |-> <<s_rhythm, s_timing, s_metronome>>],
  [tag |-> s_practice,     keywords |-> <<s_practice, s_exercise, s_drill>> ] >>

\* the loop over tag_keywords.items(), from its k-th item on
RECURSIVE extract_tags_loop(_, _, _)
extract_tags_loop(text_lower, k, acc) ==
  IF k > Len(tag_keywords) THEN acc
  ELSE extract_tags_loop(text_lower, k + 1,
         IF any_in(tag_keywords[k].keywords, text_lower)
         THEN Append(acc, tag_keywords[k].tag)
         ELSE acc)

\* extract_tags stopping at the first tag group that matches
extract_tags_first_only(t) ==
  LET found == extract_tags_loop(lower(t), 1, << >>)
  IN IF found # << >> THEN <<found[1]>> ELSE <<s_general>>

extract_tags(t) ==
  LET found == extract_tags_loop(lower(t), 1, << >>)
  IN IF found # << >> THEN found ELSE <<s_general>>

(***************************************************************************)
(* The record store.                                                       *)
(***************************************************************************)
\* the file at json_file: absent, text that is not JSON, or a JSON array of routines
MissingFile == [kind |-> "missing", data |-> << >>]
CorruptFile == [kind |-> "corrupt", data |-> << >>]
ListFile(routines) == [kind |-> "list", data |-> routines]

\* os.path.exists(self.json_file)
os_path_exists(f) == f.kind # "missing"

\* json.load(f)
json_load(f) ==
  IF f.kind = "list" THEN [ret |-> f.data, raised |-> "none"]
  ELSE [ret |-> << >>, raised |-> "JSONDecodeError"]

\* load_routines without its except clause
load_routines_no_except(f) ==
  IF os_path_exists(f)
  THEN LET r == json_load(f)
       IN [ret |-> r.ret, out |-> {}, raised |-> r.raised, file |-> f]
  ELSE [ret |-> << >>, out |-> {}, raised |-> "none", file |-> f]

load_routines(f) ==
  IF os_path_exists(f)
  THEN LET r == json_load(f)
       IN IF r.raised = "JSONDecodeError"
          THEN [ret |-> << >>, out |-> {"warning_invalid_json"}, raised |-> "none", file |-> f]
          ELSE [ret |-> r.ret, out |-> {}, raised |-> r.raised, file |-> f]
  ELSE [ret |-> << >>, out |-> {}, raised |-> "none", file |-> f]

\* what the operating system does to the write: open(..., 'w') raises and the file
\* is as it was; open truncates the file and json.dump raises, leaving a file
\* that is no JSON document; or both succeed
WriteOutcomes == {"ok", "open_raises", "dump_raises"}

save_routines(f, routines, w) ==
  IF w = "open_raises" THEN [file |-> f, out |-> {}, raised |-> "OSError"]
  ELSE IF w = "dump_raises" THEN [file |-> CorruptFile, out |-> {}, raised |-> "OSError"]
  ELSE [file |-> ListFile(routines), out |-> {"saved"}, raised |-> "none"]

\* the store calls of one step: how many loads and saves, the file before, what
\* load raised, returned and left on disk, what save was given and raised
NoIo == [loads |-> 0, saves |-> 0, before |-> MissingFile, load_raised |-> "none",
         loaded |-> << >>, after_load |-> MissingFile, save_arg |-> << >>,
         save_raised |-> "none"]

new_routine(t, c, tg, st) == [text |-> t, category |-> c, tags |-> tg, state |-> st]

add_routine(f, t, c, tg, st, w) ==
  LET l == load_routines(f)
      routines == Append(l.ret, new_routine(t, c, tg, st))
      s == save_routines(l.file, routines, w)
  IN IF l.raised # "none"
     THEN [file |-> l.file, out |-> l.out, raised |-> l.raised,
           io |-> [NoIo EXCEPT !.loads = 1, !.before = f, !.load_raised = l.raised,
                               !.after_load = l.file]]
     ELSE [file |-> s.file,
           out |-> l.out \cup s.out \cup (IF s.raised = "none" THEN {"added"} ELSE {}),
           raised |-> s.raised,
           io |-> [loads |-> 1, saves |-> 1, before |-> f, load_raised |-> "none",
                   loaded |-> l.ret,
                   after_load |-> l.file, save_arg |-> routines,
                   save_raised |-> s.raised]]

(***************************************************************************)
(* manual_entry: one action per prompt answered.                           *)
(***************************************************************************)
valid_categories == <<s_daily, s_one_day, s_two_three_days, s_one_week>>
valid_states == <<s_not_completed, s_completed, s_in_progress>>

\* x in a list
in_list(x, l) == \E i \in 1..Len(l) : l[i] = x

\* the sentinel test without .lower()
is_quit_case_sensitive(s) == s \in {s_q, s_quit}

\* s.lower() in ['q', 'quit']
is_quit(s) == lower(s) \in {s_q, s_quit}

\* [tag.strip() for tag in tags_input.split(',') if tag.strip()]
RECURSIVE strip_nonblank(_)
strip_nonblank(pieces) ==
  IF pieces = << >> THEN << >>
  ELSE (IF strip(Head(pieces)) # << >> THEN <<strip(Head(pieces))>> ELSE << >>)
       \o strip_nonblank(Tail(pieces))

parse_tags(tags_input) == strip_nonblank(split(tags_input, ","))

\* except KeyboardInterrupt
manual_entry_catches(exc) == exc = "KeyboardInterrupt"

\* a retry loop around the category prompt alone
continue_pc_category == "category"

\* the head of `while True`: its first statement is the text prompt
loop_head == "text"

\* continue: back to the head of the loop
continue_pc == loop_head

Prompts == {"text", "category", "tags", "state"}

\* the lines typed at each prompt
TextLines == {
  << >>,
  <<" "," ">>,
  <<"Q">>,
  <<"q","u","i","t"," ">>,
  <<" ","C"," ","m","a","j","o","r"," ","s","c","a","l","e">> }
CategoryLines == {
  <<"d","a","i","l","y">>,
  <<"D","a","i","l","y">>,
  << >>,
  <<"q">>,
  <<"Q","U","I","T">> }
TagsLines == {
  << >>,
  <<" ",","," ",",">>,
  <<"s","c","a","l","e","s",","," ","t","h","e","o","r","y">>,
  <<"Q">>,
  <<"q","u","i","t">> }
StateLines == {
  << >>,
  <<"c","o","m","p","l","e","t","e","d">>,
  <<"C","o","m","p","l","e","t","e","d">>,
  <<"q">>,
  <<"Q","u","i","t">> }

NoAnswer == [prompt |-> "none", line |-> << >>, interrupt |-> FALSE]
NoOcr == [exists |-> FALSE, img |-> "none", extracted |-> << >>]

ClassifierIdle == ctext = << >> /\ ccategory = << >> /\ ctags = << >>

\* manual_entry is left: by break or a caught KeyboardInterrupt (the completion
\* message is printed, line 102), or by an exception it does not catch
ManualReturn(exc, msgs) ==
  /\ pc' = "idle"
  /\ text' = << >> /\ category' = << >> /\ tags' = << >>
  /\ IF exc = "none"
     THEN exit' = "normal" /\ out' = msgs \cup {"completed"}
     ELSE IF manual_entry_catches(exc)
     THEN exit' = "normal" /\ out' = msgs \cup {"exiting", "completed"}
     ELSE exit' = "uncaught" /\ out' = msgs

\* main: no subcommand given
Main_NoCommand ==
  /\ pc = "idle"
  /\ cmd' = "none" /\ exit' = "normal" /\ out' = {"usage"}
  /\ answered' = NoAnswer /\ io' = NoIo /\ ocr' = NoOcr /\ temp' = "none"
  /\ UNCHANGED <<file, pc, text, category, tags, ctext, ccategory, ctags>>

\* main: manual
Main_Manual ==
  /\ pc = "idle"
  /\ cmd' = "manual" /\ exit' = "running" /\ out' = {"banner"}
  /\ pc' = "text"
  /\ answered' = NoAnswer /\ io' = NoIo /\ ocr' = NoOcr /\ temp' = "none"
  /\ UNCHANGED <<file, text, category, tags, ctext, ccategory, ctags>>

EnterText(line) ==
  /\ pc = "text"
  /\ answered' = [prompt |-> "text", line |-> line, interrupt |-> FALSE]
  /\ io' = NoIo
  /\ LET t == strip(line)
     IN IF is_quit(t) THEN ManualReturn("none", {})
        ELSE IF t = << >>
        THEN /\ text' = t /\ out' = {"error_text_empty"} /\ pc' = continue_pc
             /\ UNCHANGED <<category, tags, exit>>
        ELSE /\ text' = t /\ out' = {} /\ pc' = "category"
             /\ UNCHANGED <<category, tags, exit>>
  /\ UNCHANGED <<file, cmd, temp, ocr, ctext, ccategory, ctags>>

EnterCategory(line) ==
  /\ pc = "category"
  /\ answered' = [prompt |-> "category", line |-> line, interrupt |-> FALSE]
  /\ io' = NoIo
  /\ LET c == strip(line)
     IN IF is_quit(c) THEN ManualReturn("none", {})
        ELSE IF ~in_list(c, valid_categories)
        THEN /\ category' = c /\ out' = {"error_invalid_category"} /\ pc' = continue_pc
             /\ UNCHANGED <<text, tags, exit>>
        ELSE /\ category' = c /\ out' = {} /\ pc' = "tags"
             /\ UNCHANGED <<text, tags, exit>>
  /\ UNCHANGED <<file, cmd, temp, ocr, ctext, ccategory, ctags>>

EnterTags(line) ==
  /\ pc = "tags"
  /\ answered' = [prompt |-> "tags", line |-> line, interrupt |-> FALSE]
  /\ io' = NoIo
  /\ LET tags_input == strip(line)
     IN IF is_quit(tags_input) THEN ManualReturn("none", {})
        ELSE /\ tags' = parse_tags(tags_input) /\ out' = {} /\ pc' = "state"
             /\ UNCHANGED <<text, category, exit>>
  /\ UNCHANGED <<file, cmd, temp, ocr, ctext, ccategory, ctags>>

EnterState(line, w) ==
  /\ pc = "state"
  /\ answered' = [prompt |-> "state", line |-> line, interrupt |-> FALSE]
  /\ LET st == strip(line)
         state == IF st = << >> THEN s_not_completed ELSE st
         r == add_routine(file, text, category, tags, state, w)
     IN IF is_quit(st)
        THEN ManualReturn("none", {}) /\ io' = NoIo /\ file' = file
        ELSE IF st # << >> /\ ~in_list(st, valid_states)
        THEN /\ out' = {"error_invalid_state"} /\ pc' = continue_pc
             /\ io' = NoIo /\ file' = file
             /\ UNCHANGED <<text, category, tags, exit>>
        ELSE /\ Len(load_routines(file).ret) < MaxStore
             /\ file' = r.file /\ io' = r.io
             /\ IF r.raised = "none"
                THEN /\ out' = r.out \cup {"routine_added"} /\ pc' = loop_head
                     /\ UNCHANGED <<text, category, tags, exit>>
                ELSE ManualReturn(r.raised, r.out)
  /\ UNCHANGED <<cmd, temp, ocr, ctext, ccategory, ctags>>

\* Ctrl+C while manual_entry blocks on input()
Interrupt ==
  /\ pc \in Prompts
  /\ answered' = [prompt |-> pc, line |-> << >>, interrupt |-> TRUE]
  /\ io' = NoIo
  /\ ManualReturn("KeyboardInterrupt", {})
  /\ UNCHANGED <<file, cmd, temp, ocr, ctext, ccategory, ctags>>

(***************************************************************************)
(* process_image: one action for the whole call.                           *)
(***************************************************************************)
\* len(line) > 10
MinMeaningfulLen == 10

\* the filter with >= for >
is_meaningful_ge(line) == Len(line) >= MinMeaningfulLen

is_meaningful(line) == Len(line) > MinMeaningfulLen

\* [line.strip() for line in extracted_text.split('\n') if line.strip()]
stripped_lines(extracted_text) == strip_nonblank(split(extracted_text, "\n"))

\* the loop over lines, from the k-th line on: routines grows by one routine
\* for each line that passes the length filter
RECURSIVE process_lines(_, _, _)
process_lines(lines, k, routines) ==
  IF k > Len(lines) THEN routines
  ELSE process_lines(lines, k + 1,
         IF is_meaningful(lines[k])
         THEN Append(routines, new_routine(lines[k], categorize_text(lines[k]),
                                           extract_tags(lines[k]), s_not_completed))
         ELSE routines)

\* what Pillow and tesseract do: Image.open or convert raises; image.save to the
\* temporary file raises; image_to_string raises; or the text is extracted
ImageOutcomes == {"open_raises", "png_save_raises", "ocr_raises", "ok"}

\* the body of the try statement, lines 111-159
process_image_try(f, img, extracted_text, w) ==
  IF img = "open_raises"
  THEN [file |-> f, out |-> {"processing"}, raised |-> "UnidentifiedImageError",
        temp |-> "none", io |-> NoIo]
  ELSE IF img = "png_save_raises"
  THEN [file |-> f, out |-> {"processing"}, raised |-> "OSError",
        temp |-> "exists", io |-> NoIo]
  ELSE IF img = "ocr_raises"
  THEN [file |-> f, out |-> {"processing"}, raised |-> "TesseractError",
        temp |-> "exists", io |-> NoIo]
  ELSE
    LET lines == stripped_lines(extracted_text)
        l == load_routines(f)
        routines == process_lines(lines, 1, l.ret)
        added_count == Len(routines) - Len(l.ret)
        s == save_routines(l.file, routines, w)
        printed == {"processing", "extracted"} \cup l.out
    IN IF l.raised # "none"
       THEN [file |-> l.file, out |-> printed, raised |-> l.raised, temp |-> "deleted",
             io |-> [NoIo EXCEPT !.loads = 1, !.before = f, !.load_raised = l.raised,
                                 !.after_load = l.file]]
       ELSE IF added_count > 0
       THEN [file |-> s.file,
             out |-> printed \cup {"added"} \cup s.out
                     \cup (IF s.raised = "none" THEN {"added_from_image"} ELSE {}),
             raised |-> s.raised, temp |-> "deleted",
             io |-> [loads |-> 1, saves |-> 1, before |-> f, load_raised |-> "none",
                   loaded |-> l.ret,
                     after_load |-> l.file, save_arg |-> routines,
                     save_raised |-> s.raised]]
       ELSE [file |-> l.file, out |-> printed \cup {"no_meaningful_text"},
             raised |-> "none", temp |-> "deleted",
             io |-> [NoIo EXCEPT !.loads = 1, !.before = f, !.loaded = l.ret,
                                 !.after_load = l.file]]

\* process_image without its except clause
process_image_catches_none(exc) == FALSE

\* except Exception: every exception but KeyboardInterrupt and the other
\* BaseException-only classes
process_image_catches(exc) == exc \notin {"none", "KeyboardInterrupt"}

process_image(f, exists, img, extracted_text, w) ==
  IF ~exists
  THEN [file |-> f, out |-> {"error_image_not_found"}, raised |-> "none",
        temp |-> "none", io |-> NoIo]
  ELSE LET r == process_image_try(f, img, extracted_text, w)
       IN IF process_image_catches(r.raised)
          THEN [r EXCEPT !.out = r.out \cup {"error_processing_image", "traceback"},
                         !.raised = "none"]
          ELSE r

\* the texts image_to_string returns
ExtractedTexts == {
  << >>,
  \* "play a jam": 10 characters
  <<"p","l","a","y"," ","a"," ","j","a","m">>,
  \* "  play a jam \t\n\n": 10 characters once stripped
  <<" "," ","p","l","a","y"," ","a"," ","j","a","m"," ","\t","\n","\n">>,
  \* "play a jam!": 11 characters
  <<"p","l","a","y"," ","a"," ","j","a","m","!">>,
  \* "ok\nplay a jam!\n daily scales \n"
  <<"o","k","\n","p","l","a","y"," ","a"," ","j","a","m","!","\n",
    " ","d","a","i","l","y"," ","s","c","a","l","e","s"," ","\n">> }

\* main: image <image_path>
Main_Image(exists, img, extracted_text, w) ==
  /\ pc = "idle"
  \* an input the run never reads is given one value only
  /\ ~exists => img = "ok"
  /\ (~exists \/ img # "ok") => (extracted_text = << >> /\ w = "ok")
  /\ LET r == process_image(file, exists, img, extracted_text, w)
     IN /\ r.file.kind = "list" => Len(r.file.data) <= MaxStore
        /\ Len(r.io.save_arg) <= MaxStore
        /\ file' = r.file /\ out' = r.out /\ temp' = r.temp /\ io' = r.io
        /\ exit' = IF r.raised = "none" THEN "normal" ELSE "uncaught"
  /\ cmd' = "image"
  /\ ocr' = IF exists /\ img = "ok"
            THEN [exists |-> exists, img |-> img, extracted |-> extracted_text]
            ELSE [exists |-> exists, img |-> IF exists THEN img ELSE "none",
                  extracted |-> << >>]
  /\ answered' = NoAnswer
  /\ UNCHANGED <<pc, text, category, tags, ctext, ccategory, ctags>>

(***************************************************************************)
(* The commands, run one after another against the same store.             *)
(***************************************************************************)
Init ==
  /\ file \in {MissingFile, CorruptFile, ListFile(<< >>)}
  /\ pc = "idle" /\ cmd = "none" /\ exit = "normal"
  /\ text = << >> /\ category = << >> /\ tags = << >>
  /\ out = {} /\ temp = "none"
  /\ answered = NoAnswer /\ io = NoIo /\ ocr = NoOcr
  /\ ClassifierIdle

Next ==
  \/ Main_NoCommand
  \/ Main_Manual
  \/ \E line \in TextLines : EnterText(line)
  \/ \E line \in CategoryLines : EnterCategory(line)
  \/ \E line \in TagsLines : EnterTags(line)
  \/ \E line \in StateLines, w \in WriteOutcomes : EnterState(line, w)
  \/ Interrupt
  \/ \E exists \in BOOLEAN, img \in ImageOutcomes, t \in ExtractedTexts,
        w \in WriteOutcomes : Main_Image(exists, img, t, w)

Spec == Init /\ [][Next]_vars

(***************************************************************************)
(* The classifier alone, applied to a text.                                *)
(***************************************************************************)
\* pieces a text is put together from: keywords in several letter cases, a
\* keyword inside a longer word, a keyword split over two pieces, and filler
Fragments == {
  <<"D","a","i","l","y">>,
  <<"W","E","E","K">>,
  <<" ","f","e","w"," ">>,
  <<"s","c","a","l","e","d">>,
  <<"C","h","o","r","d">>,
  <<"j","a","m">>,
  <<"x">>,
  <<"w","e">>,
  <<"e","k">> }

\* the texts of at most n fragments
RECURSIVE Concats(_)
Concats(n) ==
  IF n = 0 THEN {<< >>}
  ELSE LET shorter == Concats(n - 1)
       IN shorter \cup {a \o f : a \in shorter, f \in Fragments}

Range(s) == {s[i] : i \in 1..Len(s)}

\* every keyword of the two tables, alone
KeywordTexts ==
  {s_daily, s_everyday, s_routine, s_week, s_weekly, s_couple, s_few, s_two, s_three}
  \cup UNION {Range(tag_keywords[k].keywords) : k \in 1..Len(tag_keywords)}

\* whole sentences
SentenceTexts == {
  \* "Practice this daily for technique"
  <<"P","r","a","c","t","i","c","e"," ","t","h","i","s"," ","d","a","i","l","y"," ",
    "f","o","r"," ","t","e","c","h","n","i","q","u","e">>,
  \* "Work on this for a couple of days"
  <<"W","o","r","k"," ","o","n"," ","t","h","i","s"," ","f","o","r"," ","a"," ",
    "c","o","u","p","l","e"," ","o","f"," ","d","a","y","s">>,
  \* "Practice scales daily for 10 minutes"
  <<"P","r","a","c","t","i","c","e"," ","s","c","a","l","e","s"," ","d","a","i","l","y"," ",
    "f","o","r"," ","1","0"," ","m","i","n","u","t","e","s">> }

ClassifierTexts == Concats(MaxFrags) \cup KeywordTexts \cup SentenceTexts

DriversIdle ==
  /\ file = MissingFile
  /\ pc = "idle" /\ cmd = "none" /\ exit = "normal"
  /\ text = << >> /\ category = << >> /\ tags = << >>
  /\ out = {} /\ temp = "none"
  /\ answered = NoAnswer /\ io = NoIo /\ ocr = NoOcr

InitClassifier ==
  /\ ctext \in ClassifierTexts /\ ccategory = << >> /\ ctags = << >>
  /\ DriversIdle

Categorize ==
  /\ ccategory = << >>
  /\ ccategory' = categorize_text(ctext)
  /\ UNCHANGED <<file, pc, cmd, exit, text, category, tags, out, temp, answered, io, ocr,
                 ctext, ctags>>

ExtractTags ==
  /\ ctags = << >>
  /\ ctags' = extract_tags(ctext)
  /\ UNCHANGED <<file, pc, cmd, exit, text, category, tags, out, temp, answered, io, ocr,
                 ctext, ccategory>>

NextClassifier == Categorize \/ ExtractTags

SpecClassifier == InitClassifier /\ [][NextClassifier]_vars

(***************************************************************************)
(* What the properties are stated with.                                    *)
(***************************************************************************)
\* w is a substring of t up to letter case, character by character
ContainsIgnoringCase(t, w) ==
  \E i \in 1..(Len(t) - Len(w) + 1) :
    \A j \in 1..Len(w) : lower_char(t[i + j - 1]) = lower_char(w[j])

ContainsAnyOf(t, words) == \E w \in words : ContainsIgnoringCase(t, w)

IsPrefix(a, b) == Len(a) <= Len(b) /\ \A i \in 1..Len(a) : a[i] = b[i]

\* the routines a file holds
StoredRoutines(f) == IF f.kind = "list" THEN f.data ELSE << >>

\* q or quit in any letter case
IsSentinel(line) ==
  \E w \in {<<"q">>, <<"q","u","i","t">>} :
    Len(line) = Len(w) /\ \A j \in 1..Len(w) : lower_char(line[j]) = w[j]

CategoryEnumeration == {s_daily, s_one_day, s_two_three_days, s_one_week}

\* the ordered keyword groups of categorize
CategoryGroups == <<
  [category |-> s_daily,          words |-> {s_daily, s_everyday, s_routine}],
  [category |-> s_one_week,       words |-> {s_week, s_weekly}],
  [category |-> s_two_three_days, words |-> {s_couple, s_few, s_two, s_three}] >>

MatchingGroups(t) ==
  {k \in 1..Len(CategoryGroups) : ContainsAnyOf(t, CategoryGroups[k].words)}

\* the 8 tag groups: label and trigger keywords
TagGroups == {
  [label |-> s_scales,       words |-> {s_scale, s_scales, s_major, s_minor, s_pentatonic}],
  [label |-> s_chords,       words |-> {s_chord, s_chords, s_progression}],
  [label |-> s_technique,    words |-> {s_technique, s_picking, s_fingering, s_fretting}],
  [label |-> s_ear_training, words |-> {s_ear, s_listening, s_hearing}],
  [label |-> s_theory,       words |-> {s_theory, s_harmony, s_interval}],
  [label |-> s_improv,       words |-> {s_improv, s_improvise, s_improvisation, s_jam}],
  [label |-> s_rhythm,       words |-> {s_rhythm, s_timing, s_metronome}],
  [label |-> s_practice,     words |-> {s_practice, s_exercise, s_drill}] }

MatchingTagGroups(t) == {g \in TagGroups : ContainsAnyOf(t, g.words)}

\* the trimmed, non-blank lines of an extracted text that are longer than 10
RECURSIVE LongerThanTen(_)
LongerThanTen(lines) ==
  IF lines = << >> THEN << >>
  ELSE (IF Len(Head(lines)) >= 11 THEN <<Head(lines)>> ELSE << >>)
       \o LongerThanTen(Tail(lines))

QualifyingLines(extracted_text) == LongerThanTen(stripped_lines(extracted_text))

(***************************************************************************)
(* Properties.                                                             *)
(***************************************************************************)
\* C1: the store is append-only: every step leaves the routines the file held
\* in the file, unchanged and in the same order, as a prefix of what it holds
\* afterwards; no stored routine is mutated or removed.
C1_AppendOnly ==
  [][IsPrefix(StoredRoutines(file), StoredRoutines(file'))]_vars

\* C2: the tags of a stored routine are never empty, whatever was typed at the
\* tags prompt and whatever line the OCR produced.
C2_TagsNeverEmpty ==
  \A i \in 1..Len(StoredRoutines(file)) : Len(StoredRoutines(file)[i].tags) >= 1

\* C3, as claimed: a failure writing the store propagates uncaught to the caller
\* of the command, in manual mode and in image mode.
C3_SaveFailureUncaught ==
  io.save_raised # "none" => exit = "uncaught"

\* C3, amended: a failure writing the store ends the command with no second
\* save; in manual mode it propagates uncaught and the completion message is
\* not printed; in image mode process_image catches and reports it and the
\* command ends normally.
C3_SaveFailureByMode ==
  io.save_raised # "none" =>
    /\ pc = "idle" /\ io.saves = 1
    /\ cmd \in {"manual", "image"}
    /\ cmd = "manual" => exit = "uncaught" /\ "completed" \notin out
    /\ cmd = "image" => exit = "normal" /\ "error_processing_image" \in out

C3_Witness ==
  cmd = "image" /\ io.save_raised # "none" /\ exit = "normal"

C5_FirstMatchWins ==
  ccategory # << >> =>
    /\ ccategory \in CategoryEnumeration
    /\ IF MatchingGroups(ctext) = {} THEN ccategory = s_one_day
       ELSE \E k \in MatchingGroups(ctext) :
              /\ \A m \in MatchingGroups(ctext) : k <= m
              /\ ccategory = CategoryGroups[k].category

C5_Witness ==
  /\ ccategory = s_daily
  /\ {1, 2} \subseteq MatchingGroups(ctext)

\* C6: extract_tags returns a non-empty result that holds the label of a tag
\* group exactly when a keyword of the group is in the text up to letter case,
\* and is the single element general exactly when no group matches.
C6_TagsIffKeyword ==
  ctags # << >> =>
    /\ Len(ctags) >= 1
    /\ \A g \in TagGroups : (g.label \in Range(ctags)) <=> (g \in MatchingTagGroups(ctext))
    /\ (ctags = <<s_general>>) <=> (MatchingTagGroups(ctext) = {})
    /\ Range(ctags) \subseteq {g.label : g \in TagGroups} \cup {s_general}

C6_Witness ==
  /\ Len(ctags) >= 2
  /\ Cardinality(MatchingTagGroups(ctext)) >= 2

\* C7: process_image loads the store once and saves at most once: it saves
\* exactly when some trimmed non-blank line is longer than 10 characters, and
\* then writes the loaded list followed by one not_completed routine per such
\* line, in line order; when no line qualifies the file is left as it was.
C7_SingleBatchedSave ==
  cmd = "image" =>
    /\ io.loads <= 1 /\ io.saves <= 1
    /\ (ocr.exists /\ ocr.img = "ok") =>
         LET q == QualifyingLines(ocr.extracted)
         IN /\ io.loads = 1
            /\ io.saves = 1 <=> q # << >>
            /\ io.saves = 1 =>
                 /\ Len(io.save_arg) = Len(io.loaded) + Len(q)
                 /\ IsPrefix(io.loaded, io.save_arg)
                 /\ \A i \in 1..Len(q) :
                      /\ io.save_arg[Len(io.loaded) + i].text = q[i]
                      /\ io.save_arg[Len(io.loaded) + i].state = s_not_completed
                 /\ io.save_raised = "none" => file = ListFile(io.save_arg)
            /\ io.saves = 0 => file = io.before

C7_Witness ==
  /\ cmd = "image" /\ io.saves = 1 /\ io.save_raised = "none"
  /\ Len(stripped_lines(ocr.extracted)) = 3
  /\ Len(io.save_arg) = Len(io.loaded) + 2

\* C8: a quit sentinel answered at any of the four prompts ends the session:
\* the driver returns with the completion message and the store untouched; an
\* interrupt ends it with the completion message too.
C8_QuitEndsSession ==
  [][(pc \in Prompts /\ (IsSentinel(answered'.line) \/ answered'.interrupt)) =>
       /\ pc' = "idle" /\ exit' = "normal"
       /\ "completed" \in out'
       /\ file' = file /\ io'.saves = 0]_vars

C8_Witness ==
  /\ cmd = "manual" /\ pc = "idle" /\ exit = "normal"
  /\ answered.prompt = "state" /\ IsSentinel(answered.line)
  /\ "completed" \in out

\* a category answer that is rejected: not in the enumeration, not a sentinel
RejectedCategory(line) ==
  /\ strip(line) \notin CategoryEnumeration
  /\ ~IsSentinel(strip(line))

\* C9, as claimed: after a rejected category the next prompt is the category
\* prompt of the same iteration, the entered text kept.
C9_RepromptsCategory ==
  [][(pc = "category" /\ ~answered'.interrupt /\ RejectedCategory(answered'.line)) =>
       pc' = "category" /\ text' = text]_vars

\* C9, amended: after a rejected category the driver reports the error and
\* goes back to the head of its loop: the next prompt is the text prompt, and
\* nothing is stored.
C9_RestartsFromText ==
  [][(pc = "category" /\ ~answered'.interrupt /\ RejectedCategory(answered'.line)) =>
       /\ pc' = "text"
       /\ "error_invalid_category" \in out'
       /\ file' = file /\ io'.saves = 0]_vars

C9_Witness ==
  /\ pc = "text" /\ answered.prompt = "category"
  /\ RejectedCategory(answered.line)
  /\ "error_invalid_category" \in out

\* C10: the temporary PNG does not outlive process_image, on any path out of it.
C10_TempFileDeleted ==
  cmd = "image" => temp # "exists"

====
